---- MODULE Spec2Model ----
(***************************************************************************)
(* Model of the Instagram publish hand-shake of the affirmation posting    *)
(* scripts.  The repository holds six copies of post_to_instagram:         *)
(*   "social"   src/post_to_social.py                                      *)
(*   "post"     src/post_affirmation_video.py                              *)
(*   "sunset"   src/post_sunset_affirmation_video.py                       *)
(*   "gen"      src/generate_affirmation_video.py                          *)
(*   "lambda"   src/aws/lambda/generate_affirmation_video.py               *)
(*   "carousel" src/generate_swipeable_post.py                             *)
(* One run of post_to_instagram is a sequential process; every request to  *)
(* an external service (account lookup, S3 upload, Graph API POST / GET)   *)
(* is one step whose answer is chosen by the environment.                  *)
(***************************************************************************)
EXTENDS Integers, Sequences, FiniteSets, TLC

(***************************************************************************)
(* Bounds of the model (not program constants).                            *)
(***************************************************************************)
\* ids a Graph API response may carry are 1..MaxId; 0 stands for "no id"
MaxId == 2
\* the carousel publisher receives 1..MaxImages image paths
MaxImages == 2
\* the carousel's status loop has no bound in the code; the model stops
\* exploring it after this many status GETs for one container
MaxCarouselPolls == 32

(***************************************************************************)
(* Variants and the values exchanged with the environment.                 *)
(***************************************************************************)
SingleVideoVariants == {"social", "post", "sunset", "gen", "lambda"}
Variants == SingleVideoVariants \cup {"carousel"}

NoId == 0
HttpCodes == {200, 400}
\* "absent": the JSON body has no status_code field
StatusCodes == {"FINISHED", "ERROR", "IN_PROGRESS", "EXPIRED", "absent"}
\* outcome of s3_client.upload_file: fine, botocore ClientError, any other exception
UploadOutcomes == {"ok", "client_error", "other_error"}

\* answer to a POST: HTTP status, whether response.json() parses, the id in the body
PostResponses ==
    {r \in [code : HttpCodes, json : BOOLEAN, id : 0..MaxId] : (~r.json) => r.id = NoId}
\* answer to the status GET: HTTP status, whether it parses, the status_code field
PollResponses ==
    {r \in [code : HttpCodes, json : BOOLEAN, status : StatusCodes] :
        (~r.json) => r.status = "absent"}
NoPost == [code |-> 0, json |-> FALSE, id |-> NoId]
NoPoll == [code |-> 0, json |-> FALSE, status |-> "absent"]

(***************************************************************************)
(* The decisions the code takes, one operator per decision point.          *)
(***************************************************************************)
\* the checks made before the upload
Precheck(v, envOk, accountResolved, fileExists) ==
    CASE v = "social" -> envOk /\ accountResolved
      [] v \in {"post", "sunset", "carousel"} -> accountResolved
      [] v \in {"gen", "lambda"} -> fileExists

\* what upload_to_s3 hands back: "url", "none" (returned None) or "raise"
UploadResult(v, outcome) ==
    IF outcome = "ok" THEN "url"
    ELSE IF v \in {"gen", "lambda"} /\ outcome = "other_error" THEN "raise"
    ELSE "none"

\* mutation of StageOk: the "if not url" check is missing, only an exception stops the run
StageOk_NoUrlCheck(v, outcome) == UploadResult(v, outcome) # "raise"

\* the publisher goes on after the upload only with a url
StageOk(v, outcome) == UploadResult(v, outcome) = "url"

\* mutation of ContainerAccepted: the id is read with .get(), its absence goes unnoticed
ContainerAccepted_NoIdCheck(v, resp) ==
    IF v = "social" THEN resp.json
    ELSE resp.code = 200 /\ resp.json

\* the publisher goes on to polling after the container-creation answer
ContainerAccepted(v, resp) ==
    IF v = "social" THEN resp.json /\ resp.id # NoId
    ELSE resp.code = 200 /\ resp.json /\ resp.id # NoId

\* the loop bound of the status poll (the carousel loop has none)
MaxAttempts(v) ==
    CASE v \in {"social", "post", "sunset"} -> 30
      [] v \in {"gen", "lambda"} -> 20

PollLimit(v) == IF v = "carousel" THEN MaxCarouselPolls ELSE MaxAttempts(v)

\* mutation of PollDecision: FINISHED does not leave the loop
PollDecision_NoBreak(v, resp) ==
    IF v # "carousel" /\ resp.code # 200 /\ v \in {"gen", "lambda"} THEN "fail"
    ELSE IF ~resp.json THEN "fail"
    ELSE IF resp.status = "ERROR" /\ v \notin {"social", "carousel"} THEN "fail"
    ELSE "wait"

\* reaction to one status answer: "proceed" (leave the loop towards the next
\* request), "fail" (return False) or "wait" (sleep, poll again)
PollDecision(v, resp) ==
    CASE v = "social" ->
            IF ~resp.json THEN "fail"
            ELSE IF resp.status = "FINISHED" THEN "proceed"
            ELSE "wait"
      [] v \in {"post", "sunset"} ->
            IF ~resp.json THEN "fail"
            ELSE IF resp.status = "FINISHED" THEN "proceed"
            ELSE IF resp.status = "ERROR" THEN "fail"
            ELSE "wait"
      [] v \in {"gen", "lambda"} ->
            IF resp.code # 200 THEN "fail"
            ELSE IF ~resp.json THEN "fail"
            ELSE IF resp.status = "FINISHED" THEN "proceed"
            ELSE IF resp.status = "ERROR" THEN "fail"
            ELSE "wait"
      [] v = "carousel" ->
            IF resp.code # 200 THEN "fail"
            ELSE IF ~resp.json THEN "fail"
            ELSE IF resp.status \in {"IN_PROGRESS", "absent"} THEN "wait"
            ELSE "proceed"

\* where the code goes when the for loop ends without break or return
Exhausted(v) == IF v = "social" THEN "fail" ELSE "publish"

\* the boolean returned after the media_publish answer
PublishSuccess(v, resp) ==
    CASE v = "social" -> resp.json /\ resp.id # NoId
      [] v \in {"post", "sunset", "gen", "lambda"} ->
            resp.code = 200 /\ resp.json /\ resp.id # NoId
      [] v = "carousel" -> resp.code = 200

\* mutation of AfterPublish: a refused media_publish sends the run back to polling
AfterPublish_RetryOnFailure(v, resp) ==
    IF PublishSuccess(v, resp) THEN "return" ELSE "poll"

\* what follows the media_publish answer: every copy returns, whatever the answer
AfterPublish(v, resp) == "return"

\* mutation of ChildrenParam: the first media id is left out
ChildrenParam_DropsFirst(ids) == IF Len(ids) = 0 THEN ids ELSE Tail(ids)

\* carousel: the children parameter, ','.join(media_ids)
ChildrenParam(ids) == ids

(***************************************************************************)
(* State.                                                                  *)
(***************************************************************************)
VARIABLES
    variant,        \* which copy of post_to_instagram runs
    nImages,        \* number of media files handed to the publisher
    pc,             \* position of the run
    result,         \* "none" while running, then "success" / "failure"
    uploads,        \* upload_to_s3 calls made
    child,          \* containers created and accepted so far
    attempt,        \* status GETs issued for the current container
    creationId,     \* id of the container being polled / published
    mediaIds,       \* carousel: ids of the child containers, in order
    nCreate,        \* POST {account}/media requests for media items
    nAggregate,     \* POST {account}/media requests with media_type CAROUSEL
    nPolls,         \* status GETs of the whole run
    nPublish,       \* POST {account}/media_publish requests
    publishedId,    \* creation_id sent to media_publish
    lastCreate,     \* last answer to a container-creation POST
    lastPoll,       \* last answer to a status GET
    lastPublish,    \* answer to the media_publish POST
    \* history of the run, kept for stating the properties
    uploadFailed,   \* an upload to S3 failed (ClientError or another exception)
    createNoId,     \* a container-creation answer carried no id
    createNon200,   \* a container-creation answer was not HTTP 200
    pollsAtCreate,  \* nPolls when the last container-creation POST was sent
    firstFinished,  \* position of the first FINISHED for the current container, 0 if none
    firstError,     \* position of the first ERROR for the current container, 0 if none
    pollFault,      \* a status answer was not a parseable HTTP 200 answer
    finishedChildren, \* containers whose poll loop was left on FINISHED
    returned,       \* carousel: the ids of the container-creation answers, in order
    childrenSent,   \* carousel: the children parameter of the aggregate POST
    polledIds,      \* the ids the status GETs of the run were sent for
    accountMissing  \* the Instagram account id handed to the run is None

ctrl == <<pc, result>>
requests == <<uploads, nCreate, nAggregate, nPolls, nPublish>>
history == <<uploadFailed, createNoId, createNon200, pollsAtCreate,
             firstFinished, firstError, pollFault, finishedChildren>>
trace == <<returned, childrenSent, polledIds, accountMissing>>

(***************************************************************************)
(* State of the other components: the orchestrators with post_to_facebook, *)
(* the content generators with the caption builders, and the composers.    *)
(* Each component has its own specification; the variables of the others   *)
(* stay at their initial values.                                           *)
(***************************************************************************)
VARIABLES
    orch,           \* which orchestrator runs
    opc,            \* position of the orchestrator run
    fbResult,       \* "none", then what post_to_facebook returned
    igResult,       \* "none", then what post_to_instagram returned
    report,         \* "none", then the aggregate outcome given to the caller
    tempFile,       \* temp_background.jpg exists
    nVideoPost,     \* POST {page}/videos requests
    lastVideo,      \* answer to the POST {page}/videos request
    igAccount       \* "unasked", then what the Instagram account lookup gave

VARIABLES
    gVariant,       \* which content generator / caption builder runs
    gPc,            \* "input", "generated", "captioned" or "aborted"
    gReply,         \* reply of the text-generation capability to the phrase request
    gPhrases,       \* the phrase list handed on by the generator
    capReply,       \* reply of the capability to the caption request
    gCaption        \* the caption, a sequence of text parts

VARIABLES
    cVariant,       \* which composer runs
    cPc,            \* "input" or "composed"
    nPhrases,       \* number of phrases handed to the composer
    layout,         \* vertical anchor positions, in input order
    clips,          \* fixed-slot composer: the text clips, in input order
    compDuration,   \* duration of the composite before the minimum-duration check
    outDuration,    \* duration of the video handed back
    audio           \* the audio track of the video: present or not, and its duration

VARIABLES
    srcW,           \* width of the source background video
    srcH,           \* height of the source background video
    sPc,            \* "input" or "scaled"
    newW,           \* width after scaling
    newH,           \* height after scaling
    x1,             \* left edge of the crop window
    y1              \* top edge of the crop window

VARIABLES
    aPc,            \* "request" or "answered"
    aIn,            \* what the stages of the request do
    aResp           \* the HTTP answer of POST /generate

orchVars == <<orch, opc, fbResult, igResult, report, tempFile, nVideoPost, lastVideo,
              igAccount>>
genVars == <<gVariant, gPc, gReply, gPhrases, capReply, gCaption>>
compVars == <<cVariant, cPc, nPhrases, layout, clips, compDuration, outDuration, audio>>
VARIABLES
    xFn,            \* the copy of post_to_facebook / post_to_instagram that is called
    xFaultAt,       \* the step of the call that raises (0: none does)
    xKind,          \* the class of the exception raised there
    xPos,           \* the step the call is at
    xFlight,        \* "none", or the try block an exception in flight has reached
    xOut            \* "none", then "True", "False" or "raised": what the caller gets

scaleVars == <<srcW, srcH, sPc, newW, newH, x1, y1>>
appVars == <<aPc, aIn, aResp>>
guardVars == <<xFn, xFaultAt, xKind, xPos, xFlight, xOut>>
outside == <<orchVars, genVars, compVars, scaleVars, appVars,
    guardVars>>
igVars == <<variant, nImages, pc, result, uploads, child, attempt, creationId,
            mediaIds, nCreate, nAggregate, nPolls, nPublish, publishedId,
            lastCreate, lastPoll, lastPublish, uploadFailed, createNoId,
            createNon200, pollsAtCreate, firstFinished, firstError, pollFault,
            finishedChildren, returned, childrenSent, polledIds, accountMissing>>

vars == <<igVars, orchVars, genVars, compVars, scaleVars, appVars,
    guardVars>>

\* the orchestrator has not started
OrchIdle ==
    /\ orch = "social_media"
    /\ opc = "o_start"
    /\ fbResult = "none"
    /\ igResult = "none"
    /\ report = "none"
    /\ tempFile = FALSE
    /\ nVideoPost = 0
    /\ lastVideo = NoPost
    /\ igAccount = "unasked"

\* the content generator has not started
GenIdle ==
    /\ gVariant = "swipeable"
    /\ gPc = "input"
    /\ gReply = [outcome |-> "call_error", list |-> <<>>]
    /\ gPhrases = <<>>
    /\ capReply = "raise"
    /\ gCaption = <<>>

\* the composer has not started
CompIdle ==
    /\ cVariant = "gen"
    /\ cPc = "input"
    /\ nPhrases = 0
    /\ layout = <<>>
    /\ clips = <<>>
    /\ compDuration = 0
    /\ outDuration = 0
    /\ audio = [present |-> FALSE, duration |-> 0]

\* the background has not been scaled
ScaleIdle ==
    /\ srcW = 1
    /\ srcH = 1
    /\ sPc = "input"
    /\ newW = 0
    /\ newH = 0
    /\ x1 = 0
    /\ y1 = 0

\* no request has come in
AppIdle ==
    /\ aPc = "request"
    /\ aIn = [generate |-> "raise", render |-> "raise", write |-> "raise",
              facebook |-> "raise", instagram |-> "raise"]
    /\ aResp = [code |-> 0, status |-> "none", fields |-> {}, facebook_posted |-> FALSE,
                instagram_posted |-> FALSE, message |-> "none"]

\* no guarded call is being followed
GuardIdle ==
    /\ xFn = [copy |-> "social", side |-> "facebook"]
    /\ xFaultAt = 0
    /\ xKind = "ConnectionError"
    /\ xPos = 1
    /\ xFlight = "none"
    /\ xOut = "none"

\* the publisher has not started; no request has been made
IGStart ==
    /\ pc = "start"
    /\ result = "none"
    /\ uploads = 0
    /\ child = 0
    /\ attempt = 0
    /\ creationId = NoId
    /\ mediaIds = <<>>
    /\ nCreate = 0
    /\ nAggregate = 0
    /\ nPolls = 0
    /\ nPublish = 0
    /\ publishedId = NoId
    /\ lastCreate = NoPost
    /\ lastPoll = NoPoll
    /\ lastPublish = NoPost
    /\ uploadFailed = FALSE
    /\ createNoId = FALSE
    /\ createNon200 = FALSE
    /\ pollsAtCreate = 0
    /\ firstFinished = 0
    /\ firstError = 0
    /\ pollFault = FALSE
    /\ finishedChildren = 0
    /\ returned = <<>>
    /\ childrenSent = <<>>
    /\ polledIds = {}
    /\ accountMissing = FALSE

\* the publisher is not part of the run
IGIdle == variant = "social" /\ nImages = 1 /\ IGStart

Init ==
    /\ variant \in Variants
    /\ nImages \in 1..MaxImages
    /\ (variant \in SingleVideoVariants) => nImages = 1
    /\ IGStart
    /\ OrchIdle
    /\ GenIdle
    /\ CompIdle
    /\ ScaleIdle
    /\ AppIdle
    /\ GuardIdle

\* return False
Fail == pc' = "done" /\ result' = "failure"

(***************************************************************************)
(* Steps of post_to_instagram.                                             *)
(***************************************************************************)
\* environment / account-id / file checks at the top of the function
Begin ==
    /\ UNCHANGED outside
    /\ pc = "start"
    /\ \E envOk \in BOOLEAN, accountResolved \in BOOLEAN, fileExists \in BOOLEAN :
          /\ accountMissing' = ~accountResolved
          /\ IF Precheck(variant, envOk, accountResolved, fileExists)
             THEN pc' = "stage" /\ result' = result
             ELSE Fail
    /\ UNCHANGED <<variant, nImages, uploads, child, attempt, creationId, mediaIds,
                   nCreate, nAggregate, nPolls, nPublish, publishedId,
                   lastCreate, lastPoll, lastPublish, history, returned,
                   childrenSent, polledIds>>

\* one upload_to_s3 call; the carousel uploads every image before any container
Stage ==
    /\ UNCHANGED outside
    /\ pc = "stage"
    /\ \E outcome \in UploadOutcomes :
          /\ uploads' = uploads + 1
          /\ uploadFailed' = (uploadFailed \/ outcome # "ok")
          /\ IF StageOk(variant, outcome)
             THEN /\ pc' = IF uploads + 1 = nImages THEN "create" ELSE "stage"
                  /\ result' = result
             ELSE Fail
    /\ UNCHANGED <<variant, nImages, child, attempt, creationId, mediaIds,
                   nCreate, nAggregate, nPolls, nPublish, publishedId,
                   lastCreate, lastPoll, lastPublish, createNoId, createNon200,
                   pollsAtCreate, firstFinished, firstError, pollFault,
                   finishedChildren, trace>>

\* POST {account}/media for one media item (REELS video or carousel IMAGE)
CreateContainer ==
    /\ UNCHANGED outside
    /\ pc = "create"
    /\ \E resp \in PostResponses :
          /\ nCreate' = nCreate + 1
          /\ lastCreate' = resp
          /\ returned' = IF variant = "carousel" THEN Append(returned, resp.id)
                         ELSE returned
          /\ pollsAtCreate' = nPolls
          /\ createNoId' = (createNoId \/ resp.id = NoId)
          /\ createNon200' = (createNon200 \/ resp.code # 200)
          /\ IF ContainerAccepted(variant, resp)
             THEN /\ creationId' = resp.id
                  /\ mediaIds' = IF variant = "carousel"
                                 THEN Append(mediaIds, resp.id) ELSE mediaIds
                  /\ child' = child + 1
                  /\ pc' = "poll"
                  /\ result' = result
             ELSE /\ Fail
                  /\ UNCHANGED <<creationId, mediaIds, child>>
    /\ attempt' = 0
    /\ firstFinished' = 0
    /\ firstError' = 0
    /\ UNCHANGED <<variant, nImages, uploads, nAggregate, nPolls, nPublish,
                   publishedId, lastPoll, lastPublish, uploadFailed, pollFault,
                   finishedChildren, childrenSent, polledIds, accountMissing>>

\* one GET {creation_id}?fields=status_code and the code's reaction to it
Poll ==
    /\ UNCHANGED outside
    /\ pc = "poll"
    /\ attempt < PollLimit(variant)
    /\ \E resp \in PollResponses :
          LET d == PollDecision(variant, resp)
              n == attempt + 1
          IN  /\ attempt' = n
              /\ nPolls' = nPolls + 1
              /\ lastPoll' = resp
              /\ polledIds' = polledIds \cup {creationId}
              /\ pollFault' = (pollFault \/ resp.code # 200 \/ ~resp.json)
              /\ firstFinished' = IF firstFinished = 0 /\ resp.status = "FINISHED"
                                  THEN n ELSE firstFinished
              /\ firstError' = IF firstError = 0 /\ resp.status = "ERROR"
                               THEN n ELSE firstError
              /\ finishedChildren' = IF d = "proceed" /\ resp.status = "FINISHED"
                                     THEN finishedChildren + 1 ELSE finishedChildren
              /\ CASE d = "fail" -> Fail
                   [] d = "proceed" ->
                        /\ pc' = IF variant = "carousel"
                                 THEN (IF child = nImages THEN "aggregate" ELSE "create")
                                 ELSE "publish"
                        /\ result' = result
                   [] d = "wait" ->
                        IF variant # "carousel" /\ n = MaxAttempts(variant)
                        THEN IF Exhausted(variant) = "publish"
                             THEN pc' = "publish" /\ result' = result
                             ELSE Fail
                        ELSE pc' = "poll" /\ result' = result
    /\ UNCHANGED <<variant, nImages, uploads, child, creationId, mediaIds, nCreate,
                   nAggregate, nPublish, publishedId, lastCreate, lastPublish,
                   uploadFailed, createNoId, createNon200, pollsAtCreate,
                   returned, childrenSent, accountMissing>>

\* carousel only: POST {account}/media with media_type CAROUSEL and the children
CreateAggregate ==
    /\ UNCHANGED outside
    /\ pc = "aggregate"
    /\ \E resp \in PostResponses :
          /\ nAggregate' = nAggregate + 1
          /\ lastCreate' = resp
          /\ childrenSent' = ChildrenParam(mediaIds)
          /\ pollsAtCreate' = nPolls
          /\ createNoId' = (createNoId \/ resp.id = NoId)
          /\ createNon200' = (createNon200 \/ resp.code # 200)
          /\ IF ContainerAccepted(variant, resp)
             THEN /\ creationId' = resp.id
                  /\ pc' = "publish"
                  /\ result' = result
             ELSE /\ Fail
                  /\ creationId' = creationId
    /\ UNCHANGED <<variant, nImages, uploads, child, attempt, mediaIds, nCreate,
                   nPolls, nPublish, publishedId, lastPoll, lastPublish,
                   uploadFailed, firstFinished, firstError, pollFault,
                   finishedChildren, returned, polledIds, accountMissing>>

\* POST {account}/media_publish with the creation_id, and the returned boolean
Publish ==
    /\ UNCHANGED outside
    /\ pc = "publish"
    /\ \E resp \in PostResponses :
          /\ nPublish' = nPublish + 1
          /\ publishedId' = creationId
          /\ lastPublish' = resp
          /\ IF AfterPublish(variant, resp) = "return"
             THEN /\ pc' = "done"
                  /\ result' = IF PublishSuccess(variant, resp) THEN "success"
                                ELSE "failure"
             ELSE /\ pc' = "poll"
                  /\ result' = result
    /\ UNCHANGED <<variant, nImages, uploads, child, attempt, creationId, mediaIds,
                   nCreate, nAggregate, nPolls, lastCreate, lastPoll, history, trace>>

Next ==
    \/ Begin
    \/ Stage
    \/ CreateContainer
    \/ Poll
    \/ CreateAggregate
    \/ Publish

Spec == Init /\ [][Next]_vars

TypeOK ==
    /\ variant \in Variants
    /\ nImages \in 1..MaxImages
    /\ pc \in {"start", "stage", "create", "poll", "aggregate", "publish", "done"}
    /\ result \in {"none", "success", "failure"}
    /\ (pc = "done") <=> (result # "none")
    /\ attempt \in 0..PollLimit(variant)

SingleVideo == variant \in SingleVideoVariants

(***************************************************************************)
(* The orchestrators and post_to_facebook.                                 *)
(*   "social_media" post_to_social_media   src/post_to_social.py           *)
(*   "post_main"    main                   src/post_affirmation_video.py   *)
(*   "sunset_main"  main           src/post_sunset_affirmation_video.py    *)
(*   "gen_main"     main               src/generate_affirmation_video.py   *)
(*   "schedule"     schedule_social_media_post        (same file)          *)
(*   "lambda_main"  main    src/aws/lambda/generate_affirmation_video.py   *)
(* The steps of post_to_facebook are modelled request by request; the call *)
(* of post_to_instagram is one step that yields the boolean it returns.    *)
(***************************************************************************)
Orchestrators ==
    {"social_media", "post_main", "sunset_main", "gen_main", "schedule", "lambda_main"}

\* the copy of post_to_facebook / post_to_instagram an orchestrator calls
PublisherOf(o) ==
    CASE o = "social_media" -> "social"
      [] o = "post_main" -> "post"
      [] o = "sunset_main" -> "sunset"
      [] o \in {"gen_main", "schedule"} -> "gen"
      [] o = "lambda_main" -> "lambda"

\* outcome of create_video: fine, background asset missing, or a later error
RenderOutcomes == {"ok", "no_background", "render_error"}
\* answer to GET {page}?fields=access_token
TokenResponses == [code : HttpCodes, json : BOOLEAN, token : BOOLEAN]

\* the orchestrator generates content and renders the video itself
Renders(o) == o \in {"post_main", "sunset_main", "gen_main", "lambda_main"}
\* its create_video writes temp_background.jpg
CreatesTemp(o) == o \in {"gen_main", "lambda_main"}
\* it uploads to storage itself before publishing
StagesFirst(o) == o \in {"gen_main", "schedule"}
\* it removes temp_background.jpg after the two publish calls
CleansUp(o) == o = "gen_main"

\* the orchestrator's own staging: "go" on, "return" early, or "raise" into its except
OrchStage(o, driveOk, outcome) ==
    CASE o = "gen_main" ->
            IF UploadResult("gen", outcome) = "url" THEN "go"
            ELSE IF UploadResult("gen", outcome) = "none" THEN "return"
            ELSE "raise"
      [] o = "schedule" ->
            IF UploadResult("gen", outcome) = "raise" THEN "raise" ELSE "go"

\* the checks post_to_facebook makes before asking for the page token
FbPrecheck(v, envOk, fileExists, outcome, tokenOk) ==
    CASE v = "social" -> envOk
      [] v \in {"post", "sunset"} -> TRUE
      [] v = "gen" -> tokenOk
      [] v = "lambda" -> fileExists /\ UploadResult(v, outcome) = "url" /\ tokenOk

\* the page-token answer lets post_to_facebook go on
FbPageTokenOk(v, resp) == resp.code = 200 /\ resp.json /\ resp.token

\* the video file can be opened for the multipart POST (the lambda copy posts a url)
FbFileOpens(v, fileExists) == v = "lambda" \/ fileExists

\* mutation of FbVideoSuccess: the HTTP status of the answer is not looked at
FbVideoSuccess_NoStatusCheck(v, resp) == resp.json /\ resp.id # NoId

\* the boolean returned after the answer to POST {page}/videos
FbVideoSuccess(v, resp) == resp.code = 200 /\ resp.json /\ resp.id # NoId

\* what the call of post_to_instagram yields: "none" when it is not called
IgCall(o, accountResolved, igOk) ==
    IF o = "schedule" /\ ~accountResolved THEN "none"
    ELSE IF igOk /\ Precheck(PublisherOf(o), TRUE, accountResolved, TRUE)
         THEN "success" ELSE "failure"

\* the aggregate outcome given to the caller (return value or final log line)
AggregateResult(o, fb, ig) ==
    IF o = "schedule"
    THEN (IF fb = "success" /\ ig = "none" THEN "failure" ELSE "success")
    ELSE (IF fb = "success" /\ ig = "success" THEN "success" ELSE "failure")

InitOrch ==
    /\ orch \in Orchestrators
    /\ opc = "o_start"
    /\ fbResult = "none"
    /\ igResult = "none"
    /\ report = "none"
    /\ tempFile = FALSE
    /\ nVideoPost = 0
    /\ lastVideo = NoPost
    /\ igAccount = "unasked"
    /\ IGIdle
    /\ GenIdle
    /\ CompIdle
    /\ ScaleIdle
    /\ AppIdle
    /\ GuardIdle

orchOthers == <<igVars, genVars, compVars, scaleVars, appVars,
    guardVars>>

\* the run ends without an aggregate outcome: an exception in generation or rendering
OrchAbort == opc' = "o_done" /\ report' = "aborted"

\* the run ends without an aggregate outcome: the orchestrator's staging failed
OrchStageFailed == opc' = "o_done" /\ report' = "staging_failed"

\* content generation and create_video, for the orchestrators that render
OStart ==
    /\ opc = "o_start"
    /\ \E genOk \in BOOLEAN, render \in RenderOutcomes :
          IF ~Renders(orch)
          THEN /\ opc' = IF StagesFirst(orch) THEN "o_stage" ELSE "fb_begin"
               /\ UNCHANGED <<report, tempFile>>
          ELSE IF ~genOk
          THEN OrchAbort /\ tempFile' = tempFile
          ELSE /\ tempFile' = (CreatesTemp(orch) /\ render # "no_background")
               /\ IF render = "ok"
                  THEN /\ opc' = IF StagesFirst(orch) THEN "o_stage" ELSE "fb_begin"
                       /\ report' = report
                  ELSE OrchAbort
    /\ UNCHANGED <<orch, fbResult, igResult, nVideoPost, lastVideo, igAccount,
                   orchOthers>>

\* gen_main: upload_to_s3; schedule: upload_to_google_drive, upload_to_s3
OStage ==
    /\ opc = "o_stage"
    /\ \E driveOk \in BOOLEAN, outcome \in UploadOutcomes :
          LET d == OrchStage(orch, driveOk, outcome)
          IN  CASE d = "go" -> opc' = "fb_begin" /\ report' = report
                [] d = "return" -> OrchStageFailed
                [] d = "raise" ->
                     IF orch = "schedule"
                     THEN opc' = "o_done" /\ report' = "failure"
                     ELSE OrchStageFailed
    /\ UNCHANGED <<orch, fbResult, igResult, tempFile, nVideoPost, lastVideo,
                   igAccount, orchOthers>>

\* mutation of AfterFacebook: a failed Facebook post ends the run's publishing
AfterFacebook_SkipsOnFailure(o, r) == IF r = "success" THEN "o_ig" ELSE "o_report"

\* the statement after the post_to_facebook call: the Instagram part, whatever r
AfterFacebook(o, r) == "o_ig"

\* post_to_facebook returned: the orchestrator goes on to Instagram
FbReturn(r) == fbResult' = r /\ opc' = AfterFacebook(orch, r)

\* post_to_facebook up to the page-token request
FbBegin ==
    /\ opc = "fb_begin"
    /\ \E envOk \in BOOLEAN, fileExists \in BOOLEAN, outcome \in UploadOutcomes,
          tokenOk \in BOOLEAN :
          IF FbPrecheck(PublisherOf(orch), envOk, fileExists, outcome, tokenOk)
          THEN opc' = "fb_token" /\ fbResult' = fbResult
          ELSE FbReturn("failure")
    /\ UNCHANGED <<orch, igResult, report, tempFile, nVideoPost, lastVideo,
                   igAccount, orchOthers>>

\* GET {page}?fields=access_token
FbPageToken ==
    /\ opc = "fb_token"
    /\ \E resp \in TokenResponses :
          IF FbPageTokenOk(PublisherOf(orch), resp)
          THEN opc' = "fb_post" /\ fbResult' = fbResult
          ELSE FbReturn("failure")
    /\ UNCHANGED <<orch, igResult, report, tempFile, nVideoPost, lastVideo,
                   igAccount, orchOthers>>

\* open the file, POST {page}/videos, return the boolean
FbVideoPost ==
    /\ opc = "fb_post"
    /\ \E fileExists \in BOOLEAN, netOk \in BOOLEAN, resp \in PostResponses :
          IF ~FbFileOpens(PublisherOf(orch), fileExists)
          THEN FbReturn("failure") /\ UNCHANGED <<nVideoPost, lastVideo>>
          ELSE /\ nVideoPost' = nVideoPost + 1
               /\ lastVideo' = IF netOk THEN resp ELSE NoPost
               /\ FbReturn(IF netOk /\ FbVideoSuccess(PublisherOf(orch), resp)
                           THEN "success" ELSE "failure")
    /\ UNCHANGED <<orch, igResult, report, tempFile, igAccount, orchOthers>>

\* account lookup where the orchestrator does it, and the post_to_instagram call
OInstagram ==
    /\ opc = "o_ig"
    /\ \E accountResolved \in BOOLEAN, igOk \in BOOLEAN :
          /\ igResult' = IgCall(orch, accountResolved, igOk)
          /\ igAccount' = IF accountResolved THEN "resolved" ELSE "missing"
    /\ opc' = "o_report"
    /\ UNCHANGED <<orch, fbResult, report, tempFile, nVideoPost, lastVideo,
                   orchOthers>>

\* the aggregate outcome and the cleanup at the end of the orchestrator
OReport ==
    /\ opc = "o_report"
    /\ report' = AggregateResult(orch, fbResult, igResult)
    /\ tempFile' = IF CleansUp(orch) THEN FALSE ELSE tempFile
    /\ opc' = "o_done"
    /\ UNCHANGED <<orch, fbResult, igResult, nVideoPost, lastVideo, igAccount,
                   orchOthers>>

NextOrch ==
    \/ OStart
    \/ OStage
    \/ FbBegin
    \/ FbPageToken
    \/ FbVideoPost
    \/ OInstagram
    \/ OReport

SpecOrch == InitOrch /\ [][NextOrch]_vars

(***************************************************************************)
(* The content generators and the caption builders.                        *)
(*   "swipeable"  src/generate_swipeable_post.py                           *)
(*   "dark12"     src/generate_darkSunset_12sec.py                         *)
(*   "dark5"      src/generate_darkSunset_5sec.py                          *)
(*   "overlay"    src/generate_overlay_affirmation_video.py                *)
(*   "sunset"     src/generate_sunset_affirmation_video.py                 *)
(*   "gen"        src/generate_affirmation_video.py                        *)
(*   "lambda"     src/aws/lambda/generate_affirmation_video.py             *)
(*   "post"       src/post_affirmation_video.py                            *)
(*   "sunsetpost" src/post_sunset_affirmation_video.py                     *)
(* A phrase is a sequence of characters; the model keeps the length and    *)
(* the positions of the whitespace and writes every other character "a".   *)
(***************************************************************************)
\* the capability returns lists of at most MaxPhrases phrases
MaxPhrases == 2

Scripts == {"swipeable", "dark12", "dark5", "overlay", "sunset", "gen", "lambda",
            "post", "sunsetpost"}

\* a phrase of the given length with whitespace at the given positions
Mk(len, ws) == [i \in 1..len |-> IF i \in ws THEN " " ELSE "a"]

\* a phrase made of words of the given lengths, separated by single spaces
RECURSIVE FromWords(_)
FromWords(ws) ==
    IF Len(ws) = 0 THEN <<>>
    ELSE IF Len(ws) = 1 THEN Mk(ws[1], {})
    ELSE Mk(ws[1], {}) \o <<" ">> \o FromWords(Tail(ws))

\* the phrases the capability may answer with
PhraseFamily ==
    { Mk(3, {}), Mk(30, {}), Mk(31, {}), Mk(35, {}), Mk(36, {}), Mk(40, {}),
      Mk(40, {30}), Mk(40, {28, 29, 30}), Mk(40, {1}) }

RECURSIVE SeqsUpTo(_, _)
SeqsUpTo(S, n) ==
    IF n = 0 THEN {<<>>}
    ELSE LET shorter == SeqsUpTo(S, n - 1)
         IN  shorter \cup {Append(s, x) : s \in {t \in shorter : Len(t) = n - 1}, x \in S}

\* answer to the phrase request: the client cannot be constructed, the
\* request raises, or a list of phrases comes back
PhraseReplies ==
    {[outcome |-> "client_error", list |-> <<>>], [outcome |-> "call_error", list |-> <<>>]}
    \cup {[outcome |-> "ok", list |-> l] : l \in SeqsUpTo(PhraseFamily, MaxPhrases)}
NoReply == [outcome |-> "call_error", list |-> <<>>]
\* answer to the caption request
CaptionReplies == {"raise", "text"}

\* aff[:n]
Take(s, n) == IF Len(s) <= n THEN s ELSE SubSeq(s, 1, n)

\* str.strip()
RECURSIVE LStrip(_)
LStrip(s) == IF Len(s) = 0 THEN s ELSE IF Head(s) = " " THEN LStrip(Tail(s)) ELSE s
RECURSIVE RStrip(_)
RStrip(s) ==
    IF Len(s) = 0 THEN s
    ELSE IF s[Len(s)] = " " THEN RStrip(SubSeq(s, 1, Len(s) - 1)) ELSE s
Strip(s) == RStrip(LStrip(s))

\* list.index(x): the first position holding x
IndexOf(l, x) == CHOOSE j \in 1..Len(l) : l[j] = x /\ \A k \in 1..(j - 1) : l[k] # x

\* scripts whose phrases come from the text-generation capability
Generates(v) == v \notin {"post", "sunsetpost"}
\* number of phrases the script asks for
RequestedCount(v) == IF v = "swipeable" THEN 6 ELSE 5
\* the length the validation loop compares with; 0: the script has no loop
PhraseLimit(v) ==
    CASE v \in {"swipeable", "dark12", "dark5", "overlay"} -> 30
      [] v = "sunset" -> 35
      [] OTHER -> 0
\* the validation loop replaces an over-long phrase (the others only warn)
Truncates(v) == v \in {"swipeable", "dark12", "dark5"}
\* which failures of the phrase request the generator's try block covers
Catches(v, outcome) ==
    CASE v \in {"swipeable", "dark12", "dark5"} -> TRUE
      [] v \in {"overlay", "sunset"} -> outcome = "call_error"
      [] OTHER -> FALSE

\* get_predefined_affirmations()
PredefinedAffirmations ==
    << FromWords(<<1, 2, 6, 2, 3, 4, 6>>), FromWords(<<2, 9, 2, 9>>),
       FromWords(<<1, 7, 10, 3, 5>>), FromWords(<<5, 3, 1, 4, 8>>),
       FromWords(<<1, 6, 2, 3, 9>>) >>
\* the list returned from the except branch
FallbackPhrases(v) ==
    CASE v = "swipeable" ->
            << FromWords(<<1, 2, 6, 2, 4>>), FromWords(<<1, 5, 2, 7>>),
               FromWords(<<1, 7, 2, 5>>), FromWords(<<1, 6, 9>>),
               FromWords(<<1, 2, 6>>), FromWords(<<1, 6, 2, 3>>) >>
      [] v \in {"dark12", "dark5"} ->
            << FromWords(<<1, 2, 6, 2, 4>>), FromWords(<<1, 5, 2, 7>>),
               FromWords(<<1, 7, 2, 5>>), FromWords(<<1, 6, 9>>),
               FromWords(<<1, 2, 6>>) >>
      [] OTHER -> PredefinedAffirmations

\* the validation loop with the replacement left out
RECURSIVE ValidateFrom_KeepsLong(_, _, _)
ValidateFrom_KeepsLong(l, i, limit) ==
    IF i > Len(l) THEN l ELSE ValidateFrom_KeepsLong(l, i + 1, limit)
\* for aff in affirmations: if len(aff) > limit:
\*     affirmations[affirmations.index(aff)] = aff[:limit].strip()
RECURSIVE ValidateFrom(_, _, _)
ValidateFrom(l, i, limit) ==
    IF i > Len(l) THEN l
    ELSE IF Len(l[i]) > limit
         THEN ValidateFrom([l EXCEPT ![IndexOf(l, l[i])] = Strip(Take(l[i], limit))],
                           i + 1, limit)
         ELSE ValidateFrom(l, i + 1, limit)

\* what the script's content generator hands on for a reply of the capability
GenerateAffirmations(v, reply) ==
    IF ~Generates(v)
    THEN [aborted |-> FALSE, phrases |-> PredefinedAffirmations]
    ELSE IF reply.outcome # "ok"
    THEN IF Catches(v, reply.outcome)
         THEN [aborted |-> FALSE, phrases |-> FallbackPhrases(v)]
         ELSE [aborted |-> TRUE, phrases |-> <<>>]
    ELSE IF Truncates(v)
    THEN [aborted |-> FALSE, phrases |-> ValidateFrom(reply.list, 1, PhraseLimit(v))]
    ELSE [aborted |-> FALSE, phrases |-> reply.list]

\* the parts of a caption
Part(kind) == [kind |-> kind, text |-> <<>>]
PhrasePart(p) == [kind |-> "phrase", text |-> p]
\* format_affirmations_for_caption: one bulleted line per phrase
Bullets(phrases) == [i \in 1..Len(phrases) |-> PhrasePart(phrases[i])]
\* scripts with a caption builder
BuildsCaption(v) == v \notin {"overlay", "sunset"}
\* the caption the script builds for a phrase list and a reply of the capability
GetCaption(v, phrases, reply) ==
    CASE v \in {"post", "sunsetpost"} ->
            [aborted |-> FALSE,
             parts |-> <<Part(IF reply = "text" THEN "ai_text" ELSE "fallback_sentence")>>
                       \o Bullets(phrases) \o <<Part("hashtags")>>]
      [] v \in {"swipeable", "dark5"} ->
            [aborted |-> FALSE,
             parts |-> IF reply = "text"
                       THEN <<Part("ai_text"), Part("hashtags"), Part("theme_hashtag")>>
                       ELSE <<Part("fallback_sentence"), Part("hashtags")>>]
      [] v = "dark12" ->
            [aborted |-> FALSE,
             parts |-> IF reply = "text"
                       THEN <<Part("ai_text")>>
                       ELSE <<Part("fallback_sentence"), Part("short_hashtags")>>]
      [] OTHER ->
            IF reply = "text"
            THEN [aborted |-> FALSE, parts |-> <<Part("ai_text")>>]
            ELSE [aborted |-> TRUE, parts |-> <<>>]

InitGen ==
    /\ gVariant \in Scripts
    /\ gPc = "input"
    /\ gReply \in PhraseReplies
    /\ (~Generates(gVariant)) => gReply = NoReply
    /\ capReply \in CaptionReplies
    /\ gPhrases = <<>>
    /\ gCaption = <<>>
    /\ IGIdle /\ OrchIdle /\ CompIdle /\ ScaleIdle /\ AppIdle /\ GuardIdle

genOthers == <<igVars, orchVars, compVars, scaleVars, appVars,
    guardVars>>

\* generate_themed_affirmations / the first half of generate_affirmations_and_caption
Generate ==
    /\ gPc = "input"
    /\ LET out == GenerateAffirmations(gVariant, gReply)
       IN  /\ gPc' = IF out.aborted THEN "aborted" ELSE "generated"
           /\ gPhrases' = out.phrases
    /\ UNCHANGED <<gVariant, gReply, capReply, gCaption, genOthers>>

\* get_caption / the second half of generate_affirmations_and_caption
BuildCaption ==
    /\ gPc = "generated"
    /\ BuildsCaption(gVariant)
    /\ LET out == GetCaption(gVariant, gPhrases, capReply)
       IN  /\ gPc' = IF out.aborted THEN "aborted" ELSE "captioned"
           /\ gCaption' = out.parts
    /\ UNCHANGED <<gVariant, gReply, capReply, gPhrases, genOthers>>

NextGen ==
    \/ Generate
    \/ BuildCaption

SpecGen == InitGen /\ [][NextGen]_vars

(***************************************************************************)
(* The composers.                                                          *)
(* Layout of simultaneous phrases (create_affirmation_clips, and           *)
(* create_affirmation_image for the carousel images):                      *)
(*   "dark12", "dark5", "overlay", "sunset", "sunsetpost"   70% band       *)
(*   "swipeable"                                            80% band       *)
(* Fixed-slot video (create_video with create_affirmation_clip):           *)
(*   "gen"     src/generate_affirmation_video.py                           *)
(*   "lambda"  src/aws/lambda/generate_affirmation_video.py                *)
(* Positions are exact rationals [n, d]; times are whole seconds.          *)
(***************************************************************************)
\* the composer receives 0..MaxCompose phrases
MaxCompose == 7
\* durations handed to the minimum-duration check are 0..MaxDuration seconds
MaxDuration == 60

LayoutComposers == {"dark12", "dark5", "overlay", "sunset", "sunsetpost", "swipeable"}
SlotComposers == {"gen", "lambda"}
Composers == LayoutComposers \cup SlotComposers

VIDEO_HEIGHT == 1920
IMAGE_HEIGHT == 1350
AFFIRMATION_DURATION == 6
TOTAL_DURATION == 30
MinDuration == 3
FadeDuration == 1

RECURSIVE Gcd(_, _)
Gcd(a, b) == IF b = 0 THEN a ELSE Gcd(b, a % b)
Abs(x) == IF x < 0 THEN -x ELSE x
\* the rational n/d in lowest terms, d > 0
Rat(n, d) ==
    LET g == Gcd(Abs(n), Abs(d))
        s == IF d < 0 THEN -1 ELSE 1
    IN  [n |-> (s * n) \div g, d |-> (s * d) \div g]
RInt(k) == [n |-> k, d |-> 1]
RAdd(a, b) == Rat(a.n * b.d + b.n * a.d, a.d * b.d)
RSub(a, b) == Rat(a.n * b.d - b.n * a.d, a.d * b.d)
RMul(a, b) == Rat(a.n * b.n, a.d * b.d)
RDiv(a, b) == Rat(a.n * b.d, a.d * b.n)
RLess(a, b) == a.n * b.d < b.n * a.d
RLeq(a, b) == a.n * b.d <= b.n * a.d

\* height of the canvas the phrases are laid out on
CanvasHeight(v) == IF v = "swipeable" THEN IMAGE_HEIGHT ELSE VIDEO_HEIGHT
\* share of the canvas height used for the text: 0.8 for the images, 0.7 for the videos
Band(v) == IF v = "swipeable" THEN Rat(8, 10) ELSE Rat(7, 10)
\* total_height = HEIGHT * band
TotalHeight(v) == RMul(RInt(CanvasHeight(v)), Band(v))
\* spacing = total_height / (len(affirmations) + 1)
Spacing(v, n) == RDiv(TotalHeight(v), RInt(n + 1))
\* start_y without the division by 2
StartY_NotCentred(v) == RSub(RInt(CanvasHeight(v)), TotalHeight(v))
\* start_y = (HEIGHT - total_height) / 2
StartY(v) == RDiv(RSub(RInt(CanvasHeight(v)), TotalHeight(v)), RInt(2))
\* start_y + spacing * (i + 1), the line the text of phrase i is centred on
Anchor(v, n, i) == RAdd(StartY(v), RMul(Spacing(v, n), RInt(i + 1)))
\* the anchors of n phrases, in input order
LayoutOf(v, n) == [k \in 1..n |-> Anchor(v, n, k - 1)]

\* create_affirmation_clip(text, start_time, duration, is_first): the window
\* the clip is shown in and its fades
\* (lengths in seconds, 0: no fade)
AffirmationClip(v, start, duration, isFirst) ==
    IF v = "lambda"
    THEN [start |-> start, duration |-> duration,
          fadeIn |-> FadeDuration, fadeOut |-> IF isFirst THEN 0 ELSE FadeDuration]
    ELSE [start |-> start, duration |-> duration,
          fadeIn |-> IF isFirst THEN 0 ELSE FadeDuration, fadeOut |-> FadeDuration]
\* the clips create_video makes for n phrases
SlotClips(v, n) ==
    [k \in 1..n |->
        AffirmationClip(v, (k - 1) * AFFIRMATION_DURATION, AFFIRMATION_DURATION, k = 1)]
\* clip c is shown at instant t
Visible(c, t) == c.start <= t /\ t < c.start + c.duration
Max(a, b) == IF a >= b THEN a ELSE b
RECURSIVE LastEnd(_, _)
LastEnd(cs, k) == IF k = 0 THEN 0 ELSE Max(cs[k].start + cs[k].duration, LastEnd(cs, k - 1))
\* CompositeVideoClip([background] + clips).duration: the latest end of its
\* parts, the background lasting TOTAL_DURATION
CompositeDuration(cs) == Max(TOTAL_DURATION, LastEnd(cs, Len(cs)))
\* the check with its correction left out
EnforceMinDuration_NoCheck(d) == d
\* if final_video.duration < 3: final_video = final_video.set_duration(3)
EnforceMinDuration(d) == IF d < MinDuration THEN MinDuration ELSE d

NoAudio == [present |-> FALSE, duration |-> 0]
AudioOf(d) == [present |-> TRUE, duration |-> d]
\* AudioFileClip(...).set_duration(TOTAL_DURATION), attached by set_audio
BackgroundMusic == AudioOf(TOTAL_DURATION)
\* set_duration(3) of the video also sets the duration of its audio track
AudioAfterMinDuration(d, a) ==
    IF d < MinDuration /\ a.present THEN AudioOf(MinDuration) ELSE a
\* the name AudioClip is bound in the module: the lambda copy imports * from
\* moviepy.editor, the root script imports six names and AudioClip is not one
AudioClipBound(v) == v = "lambda"
\* if final_video.audio is None: a silent track of the video's duration, or
\* the NameError of the unbound AudioClip
EnsureAudio(v, d, a) ==
    IF a.present THEN [raised |-> FALSE, audio |-> a]
    ELSE IF AudioClipBound(v) THEN [raised |-> FALSE, audio |-> AudioOf(d)]
    ELSE [raised |-> TRUE, audio |-> a]

InitCompose ==
    /\ cVariant \in Composers
    /\ cPc = "input"
    /\ nPhrases \in 0..MaxCompose
    /\ layout = <<>>
    /\ clips = <<>>
    /\ compDuration = 0
    /\ outDuration = 0
    /\ audio = [present |-> FALSE, duration |-> 0]
    /\ IGIdle /\ OrchIdle /\ GenIdle /\ ScaleIdle /\ AppIdle /\ GuardIdle

compOthers == <<igVars, orchVars, genVars, scaleVars, appVars,
    guardVars>>

\* create_affirmation_clips / create_affirmation_image: the anchors of the phrases
BuildLayout ==
    /\ cPc = "input"
    /\ cVariant \in LayoutComposers
    /\ layout' = LayoutOf(cVariant, nPhrases)
    /\ cPc' = "composed"
    /\ UNCHANGED <<cVariant, nPhrases, clips, compDuration, outDuration, audio,
                   compOthers>>

\* create_video of the fixed-slot composer
CreateVideo ==
    /\ cPc = "input"
    /\ cVariant \in SlotComposers
    /\ clips' = SlotClips(cVariant, nPhrases)
    /\ compDuration' = CompositeDuration(clips')
    /\ LET d == EnforceMinDuration(compDuration')
           r == EnsureAudio(cVariant, d,
                            AudioAfterMinDuration(compDuration', BackgroundMusic))
       IN  IF r.raised
           THEN cPc' = "raised" /\ outDuration' = outDuration /\ audio' = audio
           ELSE cPc' = "composed" /\ outDuration' = d /\ audio' = r.audio
    /\ UNCHANGED <<cVariant, nPhrases, layout, compOthers>>

NextCompose ==
    \/ BuildLayout
    \/ CreateVideo

SpecCompose == InitCompose /\ [][NextCompose]_vars

\* the minimum-duration check and the audio check of create_video applied to
\* every duration, with no audio track or one of the same duration attached
InitMinDuration ==
    /\ cVariant \in SlotComposers
    /\ cPc = "composited"
    /\ nPhrases = 0
    /\ layout = <<>>
    /\ clips = <<>>
    /\ compDuration \in 0..MaxDuration
    /\ outDuration = 0
    /\ audio \in {NoAudio, AudioOf(compDuration)}
    /\ IGIdle /\ OrchIdle /\ GenIdle /\ ScaleIdle /\ AppIdle /\ GuardIdle

CheckMinDuration ==
    /\ cPc = "composited"
    /\ LET d == EnforceMinDuration(compDuration)
           r == EnsureAudio(cVariant, d, AudioAfterMinDuration(compDuration, audio))
       IN  IF r.raised
           THEN cPc' = "raised" /\ outDuration' = outDuration /\ audio' = audio
           ELSE cPc' = "composed" /\ outDuration' = d /\ audio' = r.audio
    /\ UNCHANGED <<cVariant, nPhrases, layout, clips, compDuration, compOthers>>

NextMinDuration == CheckMinDuration

SpecMinDuration == InitMinDuration /\ [][NextMinDuration]_vars

(***************************************************************************)
(* Scale-to-cover of the background video (create_video of                 *)
(* src/generate_darkSunset_12sec.py and, line for line the same,           *)
(* src/generate_sunset_affirmation_video.py).                              *)
(* The code computes the scale factor and the scaled sizes in binary       *)
(* floating point (IEEE double, 53 significant bits, round to nearest      *)
(* even) and truncates with int().  The operators below compute the same   *)
(* results with integers: for the quotient T / s they keep the rounding    *)
(* error e of its 53-bit significand q, where q * s = T * 2^k + e.         *)
(***************************************************************************)
\* source sizes 1..MaxSrc in each direction, and a few sizes of real videos
MaxSrc == 16

VIDEO_WIDTH == 1080
RealSizes == {<<1080, 1920>>, <<1920, 1080>>, <<1280, 720>>, <<1070, 1920>>,
              <<3840, 2160>>}
SourceSizes == ((1..MaxSrc) \X (1..MaxSrc)) \cup RealSizes

RECURSIVE Pow2(_)
Pow2(n) == IF n = 0 THEN 1 ELSE 2 * Pow2(n - 1)
\* floor(log2(num / den)) for positive num, den
RECURSIVE FloorLog2(_, _)
FloorLog2(num, den) ==
    IF num >= 2 * den THEN FloorLog2(num, 2 * den) + 1
    ELSE IF num < den THEN FloorLog2(2 * num, den) - 1
    ELSE 0
\* 2^k mod m
RECURSIVE PowMod2(_, _)
PowMod2(k, m) == IF k = 0 THEN 1 % m ELSE (2 * PowMod2(k - 1, m)) % m
\* number of significand bits of a double below the leading one
MantissaBits == 52
\* exponent k that puts the significand of T / s into [2^52, 2^53)
DivShift(T, s) == MantissaBits - FloorLog2(T, s)
\* e with q * s = T * 2^k + e for the rounded significand q of T / s
QuotientError(T, s) ==
    LET k == DivShift(T, s)
        r == (T * PowMod2(k, s)) % s
        r2 == (T * PowMod2(k, 2 * s)) % (2 * s)
    IN  IF 2 * r < s THEN -r
        ELSE IF 2 * r > s THEN s - r
        ELSE IF r2 < s THEN -r ELSE s - r
\* int(s * (T / s)): the product rounds to T unless the error of the quotient
\* pulls it more than half a unit in the last place below T
OwnScaled(T, s) ==
    LET e == QuotientError(T, s)
        ulp == Pow2(FloorLog2(T, 1) - FloorLog2(T, s))
    IN  IF e < 0 /\ 2 * (-e) > ulp THEN T - 1 ELSE T
\* int(o * (T / s)): the integer part of o * T / s, one less when o * T / s is
\* a whole number M and the product rounds below M
OtherScaled(T, s, o) ==
    LET m == (o * T) \div s
        rho == (o * T) % s
    IN  IF rho # 0 \/ m = 0 THEN m
        ELSE LET e == QuotientError(T, s)
                 d == IF e < 0 THEN (o * (-e)) \div s ELSE 0
                 lm == FloorLog2(m, 1)
                 ex == lm - FloorLog2(T, s) - (IF m = Pow2(lm) THEN 1 ELSE 0)
                 below == IF ex >= 0 THEN 2 * d > Pow2(ex) ELSE 2 * d * Pow2(-ex) > 1
             IN  IF e < 0 /\ below THEN m - 1 ELSE m
\* scale_factor = max(VIDEO_WIDTH / w, VIDEO_HEIGHT / h);
\* new_width = int(w * scale_factor); new_height = int(h * scale_factor)
ScaledSize(w, h) ==
    IF VIDEO_WIDTH * h >= VIDEO_HEIGHT * w
    THEN <<OwnScaled(VIDEO_WIDTH, w), OtherScaled(VIDEO_WIDTH, w, h)>>
    ELSE <<OtherScaled(VIDEO_HEIGHT, h, w), OwnScaled(VIDEO_HEIGHT, h)>>
\* x1 = new_width // 2 - VIDEO_WIDTH // 2; y1 = new_height // 2 - VIDEO_HEIGHT // 2
CropOrigin(nw, nh) ==
    <<(nw \div 2) - (VIDEO_WIDTH \div 2), (nh \div 2) - (VIDEO_HEIGHT \div 2)>>

InitScale ==
    /\ \E size \in SourceSizes : srcW = size[1] /\ srcH = size[2]
    /\ sPc = "input"
    /\ newW = 0
    /\ newH = 0
    /\ x1 = 0
    /\ y1 = 0
    /\ IGIdle /\ OrchIdle /\ GenIdle /\ CompIdle /\ AppIdle /\ GuardIdle

scaleOthers == <<igVars, orchVars, genVars, compVars, appVars,
    guardVars>>

\* the scaling and the crop window of create_video
ScaleToCover ==
    /\ sPc = "input"
    /\ LET size == ScaledSize(srcW, srcH)
           origin == CropOrigin(size[1], size[2])
       IN  /\ newW' = size[1]
           /\ newH' = size[2]
           /\ x1' = origin[1]
           /\ y1' = origin[2]
    /\ sPc' = "scaled"
    /\ UNCHANGED <<srcW, srcH, scaleOthers>>

NextScale == ScaleToCover

SpecScale == InitScale /\ [][NextScale]_vars

(***************************************************************************)
(* The HTTP handler generate_post of src/app.py.  One request is one step; *)
(* aIn says what each stage does when it is called as its definition       *)
(* expects: return normally ("ok", or the boolean of a publisher) or raise. *)
(***************************************************************************)
StageOutcomes == {"ok", "raise"}
PublishOutcomes == {"true", "false", "raise"}
AppInputs ==
    [generate : StageOutcomes, render : StageOutcomes, write : StageOutcomes,
     facebook : PublishOutcomes, instagram : PublishOutcomes]

\* the names bound at module level in app.py (its import lines and app itself)
AppNames == {"Flask", "jsonify", "generate_affirmations_and_caption", "create_video",
             "post_to_facebook", "post_to_instagram", "os", "app"}
\* number of positional parameters of post_to_facebook / post_to_instagram in
\* generate_affirmation_video.py, and of arguments generate_post passes
FacebookParams == 2
InstagramParams == 4
ArgsPassed == 4

ErrorAnswer(msg) ==
    [code |-> 500, status |-> "error", fields |-> {"status", "message"},
     facebook_posted |-> FALSE, instagram_posted |-> FALSE, message |-> msg]
SuccessAnswer(fb, ig) ==
    [code |-> 200, status |-> "success",
     fields |-> {"status", "theme", "affirmations", "caption", "facebook_posted",
                 "instagram_posted"},
     facebook_posted |-> fb, instagram_posted |-> ig, message |-> "none"]

\* the body of generate_post: the first statement that raises ends in the
\* except branch
HandleGenerate(in) ==
    IF in.generate = "raise" THEN ErrorAnswer("generate")
    ELSE IF in.render = "raise" THEN ErrorAnswer("render")
    ELSE IF "datetime" \notin AppNames THEN ErrorAnswer("NameError datetime")
    ELSE IF in.write = "raise" THEN ErrorAnswer("write")
    ELSE IF ArgsPassed # FacebookParams THEN ErrorAnswer("TypeError post_to_facebook")
    ELSE IF in.facebook = "raise" THEN ErrorAnswer("facebook")
    ELSE IF ArgsPassed # InstagramParams THEN ErrorAnswer("TypeError post_to_instagram")
    ELSE IF in.instagram = "raise" THEN ErrorAnswer("instagram")
    ELSE SuccessAnswer(in.facebook = "true", in.instagram = "true")

InitApp ==
    /\ aPc = "request"
    /\ aIn \in AppInputs
    /\ aResp = [code |-> 0, status |-> "none", fields |-> {}, facebook_posted |-> FALSE,
                instagram_posted |-> FALSE, message |-> "none"]
    /\ IGIdle /\ OrchIdle /\ GenIdle /\ CompIdle /\ ScaleIdle /\ GuardIdle

appOthers == <<igVars, orchVars, genVars, compVars, scaleVars, guardVars>>

\* POST /generate
GeneratePost ==
    /\ aPc = "request"
    /\ aResp' = HandleGenerate(aIn)
    /\ aPc' = "answered"
    /\ UNCHANGED <<aIn, appOthers>>

NextApp == GeneratePost

SpecApp == InitApp /\ [][NextApp]_vars

(***************************************************************************)
(* Properties of the publish hand-shake.                                   *)
(***************************************************************************)

\* C1: in every single-video variant, when none of the maxAttempts status
\* polls returns FINISHED or ERROR, the run has issued exactly maxAttempts
\* status GETs, returns failure and never issues the media_publish POST.
C1_TimeoutFailsWithoutPublish ==
    (SingleVideo /\ attempt = MaxAttempts(variant) /\ firstFinished = 0
        /\ firstError = 0 /\ ~pollFault)
    => (nPolls = MaxAttempts(variant) /\ pc = "done" /\ result = "failure"
        /\ nPublish = 0)

\* C2: in every single-video variant the first status poll that returns ERROR
\* ends the run: failure, no further status GET, no media_publish POST.
C2_ErrorEndsRun ==
    (SingleVideo /\ firstError > 0)
    => (pc = "done" /\ result = "failure" /\ nPolls = firstError /\ nPublish = 0)

\* C3: in the single-video variants, when the first FINISHED is the k-th
\* status answer, no ERROR came before it and every status answer was a
\* parseable HTTP 200 answer, exactly k status GETs are issued, then exactly
\* one media_publish POST, and the run returns success when the publish answer
\* is a 200 carrying an id.
C3_FinishedAtKPublishesOnce ==
    (SingleVideo /\ firstFinished > 0 /\ firstError = 0 /\ ~pollFault)
    => /\ nPolls = firstFinished
       /\ firstFinished <= MaxAttempts(variant)
       /\ pc \in {"publish", "done"}
       /\ (pc = "publish" => nPublish = 0)
       /\ (pc = "done" =>
              /\ nPublish = 1
              /\ (lastPublish.code = 200 /\ lastPublish.id # NoId
                     => result = "success"))

\* C3 witness: [IN_PROGRESS, IN_PROGRESS, FINISHED] gave 3 polls, one publish, success
C3_Witness ==
    /\ SingleVideo /\ pc = "done" /\ firstFinished = 3 /\ firstError = 0
    /\ ~pollFault /\ nPolls = 3 /\ nPublish = 1 /\ result = "success"

\* C4: a container-creation answer without an id ends the run in failure;
\* no status GET is issued for it (none at all in the single-video variants)
\* and no media_publish POST is issued.
C4_NoIdFailsWithoutPollOrPublish ==
    createNoId
    => /\ pc = "done" /\ result = "failure"
       /\ nPublish = 0
       /\ nPolls = pollsAtCreate
       /\ (SingleVideo => nPolls = 0)

\* C4 witness: an HTTP 200 JSON answer without id was received and the run failed
C4_Witness ==
    /\ createNoId /\ lastCreate.code = 200 /\ lastCreate.json
    /\ lastCreate.id = NoId /\ result = "failure"

\* C5: a container-creation answer that is not HTTP 200 ends the run in
\* failure without polling or publishing, whatever its body carries.
C5_Non200CreateFails ==
    createNon200
    => (pc = "done" /\ result = "failure" /\ nPublish = 0
        /\ nPolls = pollsAtCreate)

\* C6: once the media_publish POST has been issued, the run returns success
\* if and only if the publish answer is HTTP 200 and contains an id.
C6_PublishSuccessIff200WithId ==
    nPublish > 0
    => ((result = "success")
        <=> (lastPublish.code = 200 /\ lastPublish.json /\ lastPublish.id # NoId))

\* C7: in the carousel variant the aggregate CAROUSEL container is created
\* only after every child container has been observed FINISHED.
C7_AggregateOnlyAfterAllFinished ==
    (variant = "carousel" /\ nAggregate > 0) => finishedChildren = nImages

\* C8: the number of status GETs issued for one container never exceeds the
\* largest maxAttempts bound of the publishers.
C8_PollsBounded == attempt <= MaxAttempts("social")

\* C9: a status answer that is neither FINISHED nor ERROR (another
\* status_code value, no status_code field, any HTTP status) keeps the run in
\* the polling state and consumes exactly one attempt, as long as attempts
\* are left.  Stated for answers whose body parses.
C9_OtherAnswerKeepsPolling ==
    [][(nPolls' = nPolls + 1 /\ lastPoll'.json
          /\ lastPoll'.status \notin {"FINISHED", "ERROR"}
          /\ attempt' < PollLimit(variant))
       => (pc' = "poll" /\ attempt' = attempt + 1)]_vars

\* C10: when an upload_to_s3 call yields no url the run returns failure, no
\* further upload is made and no container-creation, status or publish request
\* is issued.
C10_StageFailureIsTerminal ==
    uploadFailed
    => /\ pc = "done" /\ result = "failure"
       /\ uploads <= nImages
       /\ nCreate = 0 /\ nAggregate = 0 /\ nPolls = 0 /\ nPublish = 0

\* C10 witness: an upload failed and the run ended in failure
C10_Witness == uploadFailed /\ pc = "done" /\ result = "failure" /\ uploads >= 1

(***************************************************************************)
(* Properties of post_to_facebook and of the orchestrators.                *)
(***************************************************************************)

\* C11: post_to_facebook returns success if and only if the POST to
\* {page}/videos was answered with HTTP 200 and an id; any other answer or an
\* exception yields failure; the POST is issued at most once per call.
C11_FacebookSuccessIff200WithId ==
    /\ nVideoPost <= 1
    /\ (fbResult # "none") =>
          ((fbResult = "success")
           <=> (nVideoPost = 1 /\ lastVideo.code = 200 /\ lastVideo.json
                  /\ lastVideo.id # NoId))

\* C11 witness: a non-200 answer that carries an id was received and the call failed
C11_Witness ==
    /\ nVideoPost = 1 /\ lastVideo.code = 400 /\ lastVideo.id # NoId
    /\ fbResult = "failure"

\* C12: when both publish calls have returned, the aggregate outcome given
\* to the caller is success if and only if both returned success.
C12_AggregateIffBoth ==
    (opc = "o_done" /\ fbResult # "none" /\ igResult # "none")
    => ((report = "success") <=> (fbResult = "success" /\ igResult = "success"))

\* C13: when a run that created temp_background.jpg has ended after both
\* publish calls (whatever they returned) or after a failed staging, the file
\* has been removed.
C13_TempFileRemoved ==
    (opc = "o_done" /\ report \in {"success", "failure", "staging_failed"})
    => ~tempFile

(***************************************************************************)
(* Properties of the content generators and of the caption builders.       *)
(***************************************************************************)

\* C14: a failure of the text-generation capability never aborts the run: the
\* generator hands on the fixed fallback list with the requested number of
\* phrases, the caption builder the fixed fallback caption, in every script
\* that generates content.
C14_CapabilityFailureFallsBack ==
    /\ gPc # "aborted"
    /\ (Generates(gVariant) /\ gPc \in {"generated", "captioned"} /\ gReply.outcome # "ok")
          => /\ gPhrases = FallbackPhrases(gVariant)
             /\ Len(gPhrases) = RequestedCount(gVariant)
    /\ (gPc = "captioned" /\ capReply = "raise")
          => gCaption[1].kind = "fallback_sentence"

\* C15: every phrase the generator hands on is at most as long as the limit of
\* the script (30 or 35), whatever list the capability returned.
C15_PhrasesWithinLimit ==
    (Generates(gVariant) /\ PhraseLimit(gVariant) > 0 /\ gPc \in {"generated", "captioned"})
       => \A i \in 1..Len(gPhrases) : Len(gPhrases[i]) <= PhraseLimit(gVariant)

\* C16 as stated: in the truncating generators every phrase longer than the
\* limit is replaced by a phrase of exactly limit characters; the other phrases
\* and the order are unchanged.
C16_TruncatedToExactlyLimit ==
    (Truncates(gVariant) /\ gPc \in {"generated", "captioned"} /\ gReply.outcome = "ok")
       => /\ Len(gPhrases) = Len(gReply.list)
          /\ \A i \in 1..Len(gReply.list) :
                IF Len(gReply.list[i]) > PhraseLimit(gVariant)
                THEN Len(gPhrases[i]) = PhraseLimit(gVariant)
                ELSE gPhrases[i] = gReply.list[i]

\* C16 amended: in the truncating generators every phrase longer than the limit
\* is replaced, in place, by a piece of its first limit characters: at most
\* limit characters, and exactly the first limit characters when neither the
\* first nor the limit-th character is whitespace; the other phrases and the
\* order are unchanged.
C16_TruncatedToAtMostLimit ==
    (Truncates(gVariant) /\ gPc \in {"generated", "captioned"} /\ gReply.outcome = "ok")
       => /\ Len(gPhrases) = Len(gReply.list)
          /\ \A i \in 1..Len(gReply.list) :
                LET in == gReply.list[i]
                    out == gPhrases[i]
                    limit == PhraseLimit(gVariant)
                IN  IF Len(in) > limit
                    THEN /\ Len(out) <= limit
                         /\ \E a \in 1..(limit + 1), b \in 0..limit : out = SubSeq(in, a, b)
                         /\ (in[1] # " " /\ in[limit] # " ") => out = SubSeq(in, 1, limit)
                    ELSE out = in

\* an over-long phrase with whitespace at the limit came back shorter than the limit
C16_Witness ==
    /\ Truncates(gVariant)
    /\ gPc = "generated"
    /\ gReply.outcome = "ok"
    /\ \E i \in 1..Len(gReply.list) :
          /\ Len(gReply.list[i]) = 40
          /\ gReply.list[i][30] = " "
          /\ Len(gPhrases[i]) < 30
          /\ Len(gPhrases[i]) > 0

\* C17: the caption contains every phrase of the list verbatim and the fixed
\* hashtag block exactly once, with either reply of the capability, in every
\* caption builder.
C17_CaptionHasPhrasesAndHashtags ==
    (gPc = "captioned")
       => /\ \A i \in 1..Len(gPhrases) :
                \E j \in 1..Len(gCaption) : gCaption[j] = PhrasePart(gPhrases[i])
          /\ Cardinality({j \in 1..Len(gCaption) : gCaption[j].kind = "hashtags"}) = 1

(***************************************************************************)
(* Properties of the composers.                                            *)
(***************************************************************************)

\* C18: for N >= 1 phrases the layout has N anchors, strictly increasing in
\* input order, all within [0.1 * height, 0.9 * height], with the same
\* difference between every two consecutive anchors, for the 70% band (height
\* 1920) and the 80% band (height 1350).
C18_LayoutOrderedBoundedEven ==
    (cVariant \in LayoutComposers /\ cPc = "composed" /\ nPhrases >= 1)
       => LET h == RInt(CanvasHeight(cVariant))
          IN  /\ Len(layout) = nPhrases
              /\ \A i \in 1..(nPhrases - 1) : RLess(layout[i], layout[i + 1])
              /\ \A i \in 1..nPhrases :
                    /\ RLeq(RMul(Rat(1, 10), h), layout[i])
                    /\ RLeq(layout[i], RMul(Rat(9, 10), h))
              /\ \A i \in 1..(nPhrases - 1) :
                    RSub(layout[i + 1], layout[i]) = RSub(layout[2], layout[1])

\* seven anchors were laid out on the 70% band
C18_Witness ==
    /\ cVariant = "dark12"
    /\ cPc = "composed"
    /\ nPhrases = 7
    /\ Len(layout) = 7
    /\ layout[1] = RInt(456)

\* C19: in the fixed-slot composer phrase i (counted from 0) is shown exactly
\* during [6 i, 6 (i + 1)), at every instant of the video exactly one phrase
\* is shown, and the video lasts 6 * len(phrases) seconds, for every number of
\* phrases (at least one).
C19_OnePhrasePerSlot ==
    (cVariant \in SlotComposers /\ cPc = "composed" /\ nPhrases >= 1)
       => /\ Len(clips) = nPhrases
          /\ \A k \in 1..nPhrases :
                /\ clips[k].start = (k - 1) * AFFIRMATION_DURATION
                /\ clips[k].duration = AFFIRMATION_DURATION
          /\ \A t \in 0..(outDuration - 1) :
                Cardinality({k \in 1..nPhrases : Visible(clips[k], t)}) = 1
          /\ outDuration = AFFIRMATION_DURATION * nPhrases

\* C20: the duration handed back is exactly 3 seconds when the computed
\* duration is below 3, and the computed duration otherwise; it is never
\* below 3 seconds.
C20_MinimumDuration ==
    (cVariant \in SlotComposers /\ cPc = "composed")
       => /\ (compDuration < 3) => outDuration = 3
          /\ (compDuration >= 3) => outDuration = compDuration
          /\ outDuration >= 3

\* a computed duration of 2 seconds was raised to 3
C20_Witness ==
    /\ cVariant \in SlotComposers
    /\ cPc = "composed"
    /\ compDuration = 2
    /\ outDuration = 3

\* C21: the video handed back always carries an audio track, and that track
\* lasts as long as the video.
C21_AudioMatchesVideo ==
    (cVariant \in SlotComposers /\ cPc = "composed")
       => /\ audio.present
          /\ audio.duration = outDuration

\* C25: in both fixed-slot composers the first phrase has no fade-in, every
\* other phrase a fade-in of 1 second, and every phrase a fade-out of 1 second.
C25_FadesPerPhrase ==
    (cVariant \in SlotComposers /\ cPc = "composed")
       => \A k \in 1..Len(clips) :
             /\ clips[k].fadeIn = (IF k = 1 THEN 0 ELSE 1)
             /\ clips[k].fadeOut = 1

\* C26: for every source size the scaled frame covers the target (new_width
\* >= 1080, new_height >= 1920) and the crop window of 1080 x 1920 at (x1, y1)
\* lies inside the scaled frame.
C26_ScaledFrameCoversTarget ==
    (sPc = "scaled")
       => /\ newW >= 1080
          /\ newH >= 1920
          /\ 0 <= x1
          /\ x1 + 1080 <= newW
          /\ 0 <= y1
          /\ y1 + 1920 <= newH

\* C22: POST /generate answers 200 with status, theme, affirmations, caption,
\* facebook_posted and instagram_posted (the two booleans as the publishers
\* returned them) when no stage raises, and 500 with status "error" and a
\* message exactly when some stage raises.
C22_AnswerFollowsStages ==
    (aPc = "answered")
       => LET raises == \/ aIn.generate = "raise" \/ aIn.render = "raise"
                        \/ aIn.write = "raise" \/ aIn.facebook = "raise"
                        \/ aIn.instagram = "raise"
          IN  /\ (aResp.code = 500) <=> raises
              /\ (~raises) =>
                    /\ aResp.code = 200
                    /\ aResp.status = "success"
                    /\ aResp.fields = {"status", "theme", "affirmations", "caption",
                                       "facebook_posted", "instagram_posted"}
                    /\ aResp.facebook_posted = (aIn.facebook = "true")
                    /\ aResp.instagram_posted = (aIn.instagram = "true")
              /\ raises =>
                    /\ aResp.status = "error"
                    /\ aResp.fields = {"status", "message"}

(***************************************************************************)
(* Further properties of the publish hand-shake.                           *)
(***************************************************************************)

\* C24: in a single-video run the staging upload, the container-creation POST
\* and the media_publish POST are each issued at most once; only the status
\* GET is repeated.
C24_RequestsAtMostOnce ==
    SingleVideo => /\ uploads <= 1
                   /\ nCreate <= 1
                   /\ nAggregate = 0
                   /\ nPublish <= 1

\* a run that polled several times and sent each other request once
C24_Witness ==
    /\ SingleVideo
    /\ pc = "done"
    /\ nPolls >= 3
    /\ uploads = 1
    /\ nCreate = 1
    /\ nPublish = 1

\* C27: the children parameter of the aggregate container lists one media id
\* per input image, in input order, each the id of that image's own
\* container-creation answer; the creation_id sent to media_publish is the id
\* of the aggregate container's answer.
C27_ChildrenAreTheCreatedIds ==
    (variant = "carousel")
       => /\ (nAggregate >= 1) => /\ childrenSent = returned
                                  /\ Len(childrenSent) = nImages
                                  /\ nCreate = nImages
          /\ (nPublish >= 1) => /\ nAggregate = 1
                                /\ publishedId = lastCreate.id
                                /\ publishedId # NoId

\* a carousel of two images with different ids was published
C27_Witness ==
    /\ variant = "carousel"
    /\ nImages = 2
    /\ nPublish = 1
    /\ childrenSent = <<1, 2>>
    /\ publishedId = 2

\* C29: in a single-video run media_publish is only sent after a
\* container-creation answer with an id, its creation_id is that id, and every
\* status GET of the run was sent for that id.
C29_PublishUsesCreatedId ==
    SingleVideo
       => /\ (nPublish >= 1) => /\ nCreate = 1
                                /\ lastCreate.json
                                /\ lastCreate.id # NoId
                                /\ publishedId = lastCreate.id
          /\ (nPolls >= 1) => /\ lastCreate.id # NoId
                              /\ polledIds = {lastCreate.id}

\* a run that polled and published the id its container-creation answer carried
C29_Witness ==
    /\ SingleVideo
    /\ nPublish = 1
    /\ nPolls >= 1
    /\ lastCreate.id = 2
    /\ publishedId = 2
    /\ polledIds = {2}

\* C30: when the Instagram account id is None the run issues no staging upload
\* and no media / media_publish request and returns failure (the lambda script
\* passes a literal id and is left out).
C30_NoAccountNoRequests ==
    (accountMissing /\ variant # "lambda")
       => /\ uploads = 0
          /\ nCreate = 0
          /\ nAggregate = 0
          /\ nPolls = 0
          /\ nPublish = 0
          /\ result # "success"
          /\ (pc = "done") => (result = "failure")

(***************************************************************************)
(* Order of the two publish attempts.                                      *)
(***************************************************************************)

\* C23: the Instagram attempt starts only after post_to_facebook returned
\* (while the orchestrator is inside post_to_facebook nothing of the Instagram
\* part has happened), and once post_to_facebook returned the Instagram
\* attempt is made whatever it returned: the only run that reports without an
\* Instagram result is schedule_social_media_post with an account id of None.
C23_InstagramFollowsFacebook ==
    /\ (opc \in {"fb_begin", "fb_token", "fb_post"})
          => (fbResult = "none" /\ igResult = "none" /\ igAccount = "unasked")
    /\ (igResult # "none" \/ igAccount # "unasked")
          => (fbResult # "none" /\ opc \in {"o_report", "o_done"})
    /\ (fbResult # "none")
          => \/ opc = "o_ig" /\ igResult = "none" /\ igAccount = "unasked"
             \/ opc \in {"o_report", "o_done"} /\ igResult # "none"
             \/ /\ opc \in {"o_report", "o_done"}
                /\ orch = "schedule"
                /\ igAccount = "missing"

\* a run whose Facebook post failed and whose Instagram post was still made
C23_Witness ==
    /\ opc = "o_done"
    /\ fbResult = "failure"
    /\ igAccount = "resolved"
    /\ igResult = "success"

(***************************************************************************)
(* Exceptions inside post_to_facebook and post_to_instagram.  Each copy    *)
(* has its whole body in one try block; the helpers it calls and the HEAD  *)
(* test of the staged URL have try blocks of their own.  One step of a     *)
(* call raises (or none does) and the exception travels outwards.          *)
(***************************************************************************)

\* the copies of the two functions
GuardedCalls ==
    {[copy |-> c, side |-> "facebook"] :
        c \in {"social", "post", "sunset", "gen", "lambda"}}
    \cup {[copy |-> c, side |-> "instagram"] : c \in Variants}

\* exception classes of the network calls, file accesses and response parsing
ExceptionKinds == {"ConnectionError", "OSError", "KeyError", "ValueError", "ClientError"}

\* the calls a copy makes that can raise, in program order
Steps(f) ==
    IF f.side = "facebook"
    THEN CASE f.copy = "gen" ->
                <<"token_get", "token_parse", "page_get", "page_parse", "open",
                  "video_post", "video_parse">>
           [] f.copy = "lambda" ->
                <<"exists", "s3_client", "upload", "head_in_upload", "token_get",
                  "token_parse", "page_get", "page_parse", "video_post",
                  "video_parse">>
           [] OTHER ->
                <<"token_get", "token_parse", "open", "video_post", "video_parse">>
    ELSE CASE f.copy \in {"gen", "lambda"} ->
                <<"exists", "s3_client", "upload", "head_in_upload", "head",
                  "create_post", "create_parse", "poll_get", "poll_parse",
                  "publish_post", "publish_parse">>
           [] f.copy = "carousel" ->
                <<"lookup", "s3_client", "upload", "create_post", "create_parse",
                  "poll_get", "poll_parse", "aggregate_post", "aggregate_parse",
                  "publish_post">>
           [] OTHER ->
                <<"lookup", "s3_client", "upload", "create_post", "create_parse",
                  "poll_get", "poll_parse", "publish_post", "publish_parse">>

\* the innermost try block a step stands in
Scope(step) ==
    CASE step \in {"lookup", "s3_client", "upload"} -> "helper"
      [] step = "head_in_upload" -> "helper_probe"
      [] step = "head" -> "probe"
      [] OTHER -> "body"

\* the try block around a try block ("caller": none of the function is left)
Enclosing(scope) ==
    CASE scope = "helper_probe" -> "helper"
      [] scope \in {"helper", "probe"} -> "body"
      [] OTHER -> "caller"

\* mutation of ExceptClause: the function's own handler only catches request errors
ExceptClause_RequestErrorsOnly(f, scope, step, kind) ==
    IF scope = "body" THEN kind = "ConnectionError"
    ELSE IF scope = "helper" /\ f.copy \in {"gen", "lambda"}
    THEN kind = "ClientError"
    ELSE TRUE

\* does the except clause of the try block catch the exception: every clause
\* names Exception, but upload_to_s3 of gen / lambda names ClientError
ExceptClause(f, scope, step, kind) ==
    IF scope = "helper" /\ f.copy \in {"gen", "lambda"}
    THEN kind = "ClientError"
    ELSE TRUE

\* what the try block does with the exception: the helper returns None and
\* the caller returns False on it, the HEAD test prints a warning and the
\* call goes on, the function's own handler returns False
Handler(f, scope, step, kind) ==
    IF ~ExceptClause(f, scope, step, kind) THEN "propagate"
    ELSE CASE scope = "helper" -> "return_false"
           [] scope \in {"probe", "helper_probe"} -> "resume"
           [] scope = "body" -> "return_false"

InitGuard ==
    /\ xFn \in GuardedCalls
    /\ xFaultAt \in 0..Len(Steps(xFn))
    /\ xKind \in ExceptionKinds
    /\ xPos = 1
    /\ xFlight = "none"
    /\ xOut = "none"
    /\ IGIdle /\ OrchIdle /\ GenIdle /\ CompIdle /\ ScaleIdle /\ AppIdle

guardOthers == <<igVars, orchVars, genVars, compVars, scaleVars, appVars>>

\* the next call of the function body: it raises or it is passed
GStep ==
    /\ xOut = "none"
    /\ xFlight = "none"
    /\ xPos <= Len(Steps(xFn))
    /\ IF xPos = xFaultAt
       THEN xFlight' = Scope(Steps(xFn)[xPos]) /\ xPos' = xPos
       ELSE xFlight' = xFlight /\ xPos' = xPos + 1
    /\ UNCHANGED <<xFn, xFaultAt, xKind, xOut, guardOthers>>

\* the exception in flight meets the except clause of the try block it is in
GHandle ==
    /\ xOut = "none"
    /\ xFlight # "none"
    /\ LET d == Handler(xFn, xFlight, Steps(xFn)[xPos], xKind)
       IN  CASE d = "return_false" ->
                  xOut' = "False" /\ xFlight' = "none" /\ xPos' = xPos
             [] d = "resume" ->
                  xOut' = xOut /\ xFlight' = "none" /\ xPos' = xPos + 1
             [] d = "propagate" ->
                  IF Enclosing(xFlight) = "caller"
                  THEN xOut' = "raised" /\ xFlight' = xFlight /\ xPos' = xPos
                  ELSE xOut' = xOut /\ xFlight' = Enclosing(xFlight) /\ xPos' = xPos
    /\ UNCHANGED <<xFn, xFaultAt, xKind, guardOthers>>

\* the end of the body: the boolean of the last answer
GReturn ==
    /\ xOut = "none"
    /\ xFlight = "none"
    /\ xPos > Len(Steps(xFn))
    /\ \E ok \in BOOLEAN : xOut' = IF ok THEN "True" ELSE "False"
    /\ UNCHANGED <<xFn, xFaultAt, xKind, xPos, xFlight, guardOthers>>

NextGuard ==
    \/ GStep
    \/ GHandle
    \/ GReturn

SpecGuard == InitGuard /\ [][NextGuard]_vars

\* the step that raises is the HEAD test of the staged URL
ProbeFault == xFaultAt # 0 /\ Steps(xFn)[xFaultAt] \in {"head", "head_in_upload"}

\* C28 as stated: no exception reaches the caller, and whenever a network
\* call, a file access or the parsing of an answer raised, the function
\* returned False.
C28_EveryFailureReturnsFalse ==
    /\ xOut # "raised"
    /\ (xOut # "none" /\ xFaultAt # 0) => (xOut = "False")

\* C28, amended: no exception reaches the caller, and whenever a call other
\* than a HEAD test of the staged URL raised, the function returned False
\* (an exception of the HEAD test in upload_to_s3 of the gen / lambda copy,
\* or of the one in their post_to_instagram, is printed as a warning and the
\* call goes on).
C28_NoExceptionReachesCaller ==
    /\ xOut # "raised"
    /\ (xOut # "none" /\ xFaultAt # 0 /\ ~ProbeFault) => (xOut = "False")
    /\ (xOut = "True") => (xFaultAt = 0 \/ ProbeFault)

\* upload_to_s3 of the gen copy raised something its own except clause does
\* not name; the handler of post_to_instagram caught it and False was returned
C28_Witness ==
    /\ xFn = [copy |-> "gen", side |-> "instagram"]
    /\ xFaultAt = 3
    /\ Steps(xFn)[xFaultAt] = "upload"
    /\ xKind = "OSError"
    /\ xOut = "False"

====
